---------------------------- MODULE Spec2Model ----------------------------
(***************************************************************************)
(* A model of src/met3r/met3r.py: the class MEt3R, its geometry helpers    *)
(* and the method forward, followed line block by line block.              *)
(*                                                                         *)
(* Numbers.  Tensor entries are modelled as exact rationals <<n, d>> with  *)
(* d > 0 and gcd(n, d) = 1, extended with the three IEEE specials a float  *)
(* division can produce: NaN = <<0, 0>>, +inf = <<1, 0>>, -inf = <<-1, 0>>.*)
(* Rounding and signed zeros of float32 are not modelled.                  *)
(*                                                                         *)
(* Optional values.  Python's None is the empty tuple <<>>; a supplied     *)
(* value v is the one-element tuple <<v>>.                                 *)
(*                                                                         *)
(* External code.  The stereo network (self.dust3r), the feature network   *)
(* (self.upsampler) and the pytorch3d rasterizer are not part of the       *)
(* repository.  They are deterministic functions of their inputs whose     *)
(* values are unknown: the stereo prediction is part of what identifies an *)
(* image pair, and the rasterizer's picture is chosen from a bounded set   *)
(* when render is called, equal clouds giving equal pictures.              *)
(***************************************************************************)
EXTENDS Integers, Sequences, FiniteSets

---------------------------------------------------------------------------
(* Bounds of the model *)

\* largest image side (h and w range over 1..MaxSide)
MaxSide == 2
\* largest depth value of a supplied depth map (depths range over 0..MaxDepth)
MaxDepth == 2
\* number of feature channels of a rendered picture
Channels == 2
\* largest focal length of the intrinsics and of the synthetic pinhole maps
MaxFocal == 2

---------------------------------------------------------------------------
(* Extended rational arithmetic: what +, -, *, / of float tensors compute *)

None == <<>>
Some(v) == <<v>>

Abs(n) == IF n < 0 THEN -n ELSE n
Sgn(n) == IF n < 0 THEN -1 ELSE IF n > 0 THEN 1 ELSE 0

RECURSIVE GCD(_, _)
GCD(a, b) == IF b = 0 THEN a ELSE GCD(b, a % b)

\* the number n/d in lowest terms; n/0 is one of the specials
Num(n, d) ==
    IF d = 0 THEN <<Sgn(n), 0>>
    ELSE LET g == GCD(Abs(n), Abs(d))
             s == IF d < 0 THEN -1 ELSE 1
         IN  <<s * (n \div g), s * (d \div g)>>

Q(n) == <<n, 1>>
NaN == <<0, 0>>
PosInf == <<1, 0>>
Zero == <<0, 1>>
One == <<1, 1>>

IsNaN(a) == a = NaN
IsFinite(a) == a[2] # 0

Neg(a) == <<-a[1], a[2]>>

Add(a, b) ==
    IF a[2] # 0 /\ b[2] # 0 THEN Num(a[1] * b[2] + b[1] * a[2], a[2] * b[2])
    ELSE IF a[2] # 0 THEN b
    ELSE IF b[2] # 0 THEN a
    ELSE IF a = b THEN a ELSE NaN

Sub(a, b) == Add(a, Neg(b))

Mul(a, b) ==
    IF a[2] # 0 /\ b[2] # 0 THEN Num(a[1] * b[1], a[2] * b[2])
    ELSE <<Sgn(a[1]) * Sgn(b[1]), 0>>

\* IEEE division: x/0 is +-inf, 0/0 and inf/inf are NaN, x/inf is 0
Div(a, b) ==
    IF b[2] = 0
      THEN IF b = NaN \/ a[2] = 0 THEN NaN ELSE Zero
    ELSE IF b[1] = 0 THEN <<Sgn(a[1]), 0>>
    ELSE Mul(a, Num(b[2], b[1]))

\* a < b, for finite a and b
Less(a, b) == a[1] * b[2] < b[1] * a[2]
Leq(a, b) == a = b \/ Less(a, b)

RECURSIVE SumSeq(_)
SumSeq(s) == IF s = <<>> THEN Zero ELSE Add(Head(s), SumSeq(Tail(s)))

RECURSIVE IntSum(_)
IntSum(s) == IF s = <<>> THEN 0 ELSE Head(s) + IntSum(Tail(s))

\* the square root of a rational whose numerator and denominator are squares
Sqrt(a) ==
    <<CHOOSE k \in 0..a[1] : k * k = a[1], CHOOSE k \in 1..a[2] : k * k = a[2]>>

---------------------------------------------------------------------------
(* Tensors of the geometry path *)

\* a 4x4 matrix is a tuple of four rows of four entries
Idx4 == 1..4

Eye4 == [i \in Idx4 |-> [j \in Idx4 |-> IF i = j THEN 1 ELSE 0]]

\* integer entries as numbers
MatQ(M) == [i \in Idx4 |-> [j \in Idx4 |-> Q(M[i][j])]]

EyeQ == MatQ(Eye4)

\* A @ B for 4x4 matrices of numbers
MatMul(A, B) ==
    [i \in Idx4 |-> [j \in Idx4 |->
        Add(Add(Mul(A[i][1], B[1][j]), Mul(A[i][2], B[2][j])),
            Add(Mul(A[i][3], B[3][j]), Mul(A[i][4], B[4][j])))]]

Skip(k) == [n \in 1..3 |-> IF n < k THEN n ELSE n + 1]

Det3(a) ==
      a[1][1] * (a[2][2] * a[3][3] - a[2][3] * a[3][2])
    - a[1][2] * (a[2][1] * a[3][3] - a[2][3] * a[3][1])
    + a[1][3] * (a[2][1] * a[3][2] - a[2][2] * a[3][1])

\* determinant of M without row i and column j
Minor(M, i, j) ==
    Det3([a \in 1..3 |-> [b \in 1..3 |-> M[Skip(i)[a]][Skip(j)[b]]]])

Parity(n) == IF n % 2 = 0 THEN 1 ELSE -1

Det4(M) ==
      M[1][1] * Minor(M, 1, 1) - M[1][2] * Minor(M, 1, 2)
    + M[1][3] * Minor(M, 1, 3) - M[1][4] * Minor(M, 1, 4)

Singular(M) == Det4(M) = 0

\* torch.inverse of an integer-valued, non-singular 4x4 matrix: adjugate / det
Inverse(M) ==
    LET det == Det4(M)
    IN  [i \in Idx4 |-> [j \in Idx4 |-> Num(Parity(i + j) * Minor(M, j, i), det)]]

\* the result of an operation that may raise: err = "" and the value, or the
\* exception's name
Ok(v) == [err |-> "", val |-> v]
Raise(e) == [err |-> e, val |-> <<>>]

\* tensor.squeeze() on a shape: every dimension of size 1 is dropped
NotOne(d) == d # 1
Squeeze(shape) == SelectSeq(shape, NotOne)

\* pixel p (1..H*W, row-major) of an H x W grid: its column x and row y
Col(p, W) == (p - 1) % W
Row(p, W) == (p - 1) \div W

\* mutant: the grid holds [y, x] instead of [x, y]
BackProject_Swapped(inv, x, y, d) ==
    [c \in 1..3 |->
        Mul(Add(Add(Mul(inv[c][1], Q(y)), Mul(inv[c][2], Q(x))),
                Add(inv[c][3], inv[c][4])), d)]

\* the point inv_camera_matrix @ [x, y, 1, 1], first three coordinates times d
BackProject(inv, x, y, d) ==
    [c \in 1..3 |->
        Mul(Add(Add(Mul(inv[c][1], Q(x)), Mul(inv[c][2], Q(y))),
                Add(inv[c][3], inv[c][4])), d)]

\* MEt3R.depth_to_pointmap.  depth_map is [shape, data]: data lists the depths
\* row by row.  camera_matrix is an integer-valued 4x4 matrix.
depth_to_pointmap(depth_map, camera_matrix) ==
    IF Len(depth_map.shape) \notin {2, 3} THEN Raise("AssertionError")
    ELSE IF Len(depth_map.shape) = 3 /\ depth_map.shape[3] # 1
      THEN Raise("AssertionError")
    ELSE IF Singular(camera_matrix) THEN Raise("LinAlgError")
    ELSE LET H == depth_map.shape[1]
             W == depth_map.shape[2]
             inv_camera_matrix == Inverse(camera_matrix)
         IN  Ok([shape |-> <<H, W>>,
                 data |-> [p \in 1..(H * W) |->
                     BackProject(inv_camera_matrix, Col(p, W), Row(p, W),
                                 Q(depth_map.data[p]))]])

\* mutant: the train pose is not inverted
get_relative_pose_NoInverse(train_pose, ood_pose) ==
    IF Singular(train_pose) THEN Raise("LinAlgError")
    ELSE Ok(MatMul(MatQ(ood_pose), MatQ(train_pose)))

\* MEt3R._get_relative_pose on two integer-valued 4x4 poses
get_relative_pose(train_pose, ood_pose) ==
    IF Singular(train_pose) THEN Raise("LinAlgError")
    ELSE Ok(MatMul(MatQ(ood_pose), Inverse(train_pose)))

\* pose @ [x, y, z, 1], first three coordinates
TransformPoint(pose, pt) ==
    [c \in 1..3 |->
        Add(Add(Mul(pose[c][1], pt[1]), Mul(pose[c][2], pt[2])),
            Add(Mul(pose[c][3], pt[3]), pose[c][4]))]

\* MEt3R.transform_pointmap: every point of the map through the pose
transform_pointmap(pointmap, pose) ==
    [shape |-> pointmap.shape,
     data |-> [p \in 1..Len(pointmap.data) |-> TransformPoint(pose, pointmap.data[p])]]

\* camera_matrix = eye(4) with camera_matrix[:3, :3] = K
CameraMatrix(K) ==
    [i \in Idx4 |-> [j \in Idx4 |-> IF i <= 3 /\ j <= 3 THEN K[i][j] ELSE Eye4[i][j]]]

---------------------------------------------------------------------------
(* The stereo-inference path *)

\* the shift of the confidences (line 140)
ConfShift == Num(999, 1000)

\* the centered pixel grid xy_grid(W, H) - pp with pp = (w / 2, h / 2)
PixelU(p, W, w) == Num(2 * Col(p, W) - w, 2)
PixelV(p, W, h) == Num(2 * Row(p, W) - h, 2)

\* What the frozen stereo network predicts for a view.  An image is
\* [scene, conf]; scene <<fx, fy, kind>> gives the predicted point map: the
\* pinhole back-projection of the centered grid with focals fx, fy and depth 1
\* at each pixel (kind 1) or depth 1, 2, 1, 2, ... (kind 2), or every point at
\* the origin (kind 0); conf is the predicted confidence, the same at each pixel.
SceneDepth(kind, p) == IF kind = 0 THEN 0 ELSE IF kind = 1 THEN 1 ELSE 1 + ((p - 1) % 2)

ScenePoints(scene, h, w) ==
    [p \in 1..(h * w) |->
        LET z == Q(SceneDepth(scene[3], p))
        IN  <<Div(Mul(PixelU(p, w, w), z), Q(scene[1])),
              Div(Mul(PixelV(p, w, h), z), Q(scene[2])),
              z>>]

\* pred1, pred2 = self.dust3r(view1, view2) with view1 = images[:, 0] = ood_rgb
\* and view2 = images[:, 1] = train_rgb, stacked as lines 136-137 stack them
Dust3r(ood_rgb, train_rgb, h, w) ==
    [ptmps |-> <<ScenePoints(ood_rgb.scene, h, w), ScenePoints(train_rgb.scene, h, w)>>,
     conf  |-> <<[p \in 1..(h * w) |-> ood_rgb.conf], [p \in 1..(h * w) |-> train_rgb.conf]>>]

\* confs11.sum(1): the normalizer of the fusion at pixel p
WeightSum(conf, p) == Add(Sub(conf[1][p], ConfShift), Sub(conf[2][p], ConfShift))

\* mutant: an epsilon added to the normalizer
FusePoint_Eps(ptmps, conf, p) ==
    LET w1 == Sub(conf[1][p], ConfShift)
        w2 == Sub(conf[2][p], ConfShift)
    IN  [c \in 1..3 |->
            Div(Add(Mul(w1, ptmps[1][p][c]), Mul(w2, ptmps[2][p][c])),
                Add(Add(w1, w2), Num(1, 1000000)))]

\* canon = (confs11 * ptmps).sum(1) / confs11.sum(1) at pixel p
FusePoint(ptmps, conf, p) ==
    LET w1 == Sub(conf[1][p], ConfShift)
        w2 == Sub(conf[2][p], ConfShift)
    IN  [c \in 1..3 |->
            Div(Add(Mul(w1, ptmps[1][p][c]), Mul(w2, ptmps[2][p][c])), Add(w1, w2))]

\* MEt3R._compute_canonical_point_map on the network's prediction
compute_canonical_point_map(pred) ==
    [canon |-> [p \in 1..Len(pred.ptmps[1]) |-> FusePoint(pred.ptmps, pred.conf, p)],
     ptmps |-> pred.ptmps]

---------------------------------------------------------------------------
(* The depth path *)

\* MEt3R._canonical_point_map_from_depth.  The optional arguments arrive as
\* forward passes them; train_depth, K and train_pose are not None here.
\* did_geometry tells whether an inverse or a point map was computed before
\* the exception, if any.
canonical_point_map_from_depth(train_depth, ood_depth, K, train_pose, ood_pose) ==
    IF ood_pose = None
      THEN [err |-> "AttributeError", did_geometry |-> FALSE]     \* line 217
    ELSE LET rel == get_relative_pose(train_pose[1], ood_pose[1])
         IN
         IF rel.err # "" THEN [err |-> rel.err, did_geometry |-> FALSE]
         ELSE IF ood_depth = None
           THEN [err |-> "AttributeError", did_geometry |-> TRUE]  \* line 245
         ELSE LET camera_matrix == CameraMatrix(K[1])
                  pm0 == depth_to_pointmap(
                            [shape |-> Squeeze(ood_depth[1].shape),
                             data |-> ood_depth[1].data], camera_matrix)
                  pm1 == depth_to_pointmap(
                            [shape |-> Squeeze(train_depth[1].shape),
                             data |-> train_depth[1].data], camera_matrix)
              IN
              IF pm0.err # "" THEN [err |-> pm0.err, did_geometry |-> TRUE]
              ELSE IF pm1.err # "" THEN [err |-> pm1.err, did_geometry |-> TRUE]
              ELSE [err |-> "", did_geometry |-> TRUE,
                    rel_pose |-> rel.val,
                    canon |-> pm0.val.data,
                    ptmps |-> <<pm0.val.data,
                                transform_pointmap(pm1.val, rel.val).data>>]

---------------------------------------------------------------------------
(* Focal length (lines 352-385) *)

\* a < b in the order a sort puts the non-NaN values in
LessX(a, b) ==
    IF a[2] # 0 /\ b[2] # 0 THEN Less(a, b)
    ELSE IF a[2] = 0 /\ b[2] = 0 THEN a[1] < b[1]
    ELSE IF a[2] = 0 THEN a[1] < 0
    ELSE b[1] > 0

\* mutant: torch.median, which returns NaN as soon as one value is NaN
NanMedian_Propagating(votes) ==
    LET idx == 1..Len(votes)
        k == (Len(votes) + 1) \div 2
        below(v) == Cardinality({i \in idx : LessX(votes[i], v)})
        upto(v) == Cardinality({i \in idx : ~LessX(v, votes[i])})
    IN  IF \E i \in idx : IsNaN(votes[i]) THEN NaN
        ELSE LET m == CHOOSE i \in idx : below(votes[i]) < k /\ k <= upto(votes[i])
             IN  votes[m]

\* torch.nanmedian: the lower median of the values that are not NaN, and NaN
\* when every value is NaN
NanMedian(votes) ==
    LET live == {i \in 1..Len(votes) : ~IsNaN(votes[i])}
        k == (Cardinality(live) + 1) \div 2
        below(v) == Cardinality({i \in live : LessX(votes[i], v)})
        upto(v) == Cardinality({i \in live : ~LessX(v, votes[i])})
    IN  IF live = {} THEN NaN
        ELSE LET m == CHOOSE i \in live : below(votes[i]) < k /\ k <= upto(votes[i])
             IN  votes[m]

\* fx_votes = (u * z) / x and fy_votes = (v * z) / y over the flattened map
FxVotes(canon, h, w) ==
    [p \in 1..(h * w) |-> Div(Mul(PixelU(p, w, w), canon[p][3]), canon[p][1])]
FyVotes(canon, h, w) ==
    [p \in 1..(h * w) |-> Div(Mul(PixelV(p, w, h), canon[p][3]), canon[p][2])]

\* focal = torch.nanmedian(f_votes, dim=-2)[0]
EstimateFocal(canon, h, w) ==
    <<NanMedian(FxVotes(canon, h, w)), NanMedian(FyVotes(canon, h, w))>>

\* focal[..., 0] = 1 + focal[..., 0] / w; focal[..., 1] = 1 + focal[..., 1] / h
NormalizeFocal(f, h, w) ==
    <<Add(One, Div(f[1], Q(w))), Add(One, Div(f[2], Q(h)))>>

\* the focal block: the estimate (or K's diagonal) and one row per view
FocalBlock(K, canon, h, w) ==
    LET raw == IF K = None THEN EstimateFocal(canon, h, w)
               ELSE <<Q(K[1][1][1]), Q(K[1][2][2])>>
    IN  [raw |-> raw,
         per_view |-> <<NormalizeFocal(raw, h, w), NormalizeFocal(raw, h, w)>>]

---------------------------------------------------------------------------
(* Overlap mask and score (lines 437-456) *)

\* background_color of the render call (line 434), compared against at line 438
Sentinel == -10000

\* the epsilons of lines 454 and 456
CosEps == Num(1, 1000)
MaskEps == Num(1, 1000000)

Chan == 1..Channels

\* mutant: only the first view is compared against the sentinel
OverlapAt_OneView(rendering, p) ==
    IF \E c \in Chan : rendering[1][p][c] = Sentinel THEN 0 ELSE 1

\* overlap_mask = (1 - non_overlap_mask.float()).prod(-1).prod(1) at pixel p
OverlapAt(rendering, p) ==
    IF \E k \in 1..2 : \E c \in Chan : rendering[k][p][c] = Sentinel THEN 0 ELSE 1

OverlapMask(rendering) ==
    [p \in 1..Len(rendering[1]) |-> OverlapAt(rendering, p)]

\* rendering[non_overlap_mask] = 0.0
ZeroOut(rendering) ==
    [k \in 1..2 |-> [p \in 1..Len(rendering[k]) |->
        [c \in Chan |-> IF rendering[k][p][c] = Sentinel THEN 0 ELSE rendering[k][p][c]]]]

Dot(a, b) == IntSum([c \in Chan |-> a[c] * b[c]])

\* torch.linalg.norm(., dim=-1)
VecNorm(a) == Sqrt(Q(Dot(a, a)))

\* the denominator of the cosine at line 454
CosDenominator(a, b) == Add(Mul(VecNorm(a), VecNorm(b)), CosEps)

\* mutant: the cosine similarity instead of 1 - similarity
DissimAt_Similarity(r1, r0) == Div(Q(Dot(r1, r0)), CosDenominator(r1, r0))

\* feat_dissim_maps at one pixel, rendering[:, 1] against rendering[:, 0]
DissimAt(r1, r0) == Sub(One, Div(Q(Dot(r1, r0)), CosDenominator(r1, r0)))

DissimMap(zeroed) ==
    [p \in 1..Len(zeroed[1]) |-> DissimAt(zeroed[2][p], zeroed[1][p])]

\* mutant: the normalizer without its epsilon
MaskNormalizer_NoEps(mask) == Q(IntSum(mask))

\* the normalizer of the weighted mean at line 456
MaskNormalizer(mask) == Add(Q(IntSum(mask)), MaskEps)

\* feat_dissim_weighted
WeightedScore(dissim, mask) ==
    Div(SumSeq([p \in 1..Len(mask) |-> Mul(dissim[p], Q(mask[p]))]),
        MaskNormalizer(mask))

---------------------------------------------------------------------------
(* Inputs of forward *)

Shapes == (1..MaxSide) \X (1..MaxSide)

\* scenes the stereo network may see: pinhole maps for every pair of focals,
\* one with varying depth, and the degenerate map
Scenes ==
    {<<fx, fy, 1>> : fx \in 1..MaxFocal, fy \in 1..MaxFocal} \cup {<<1, 1, 2>>, <<1, 1, 0>>}

Img(scene, conf) == [scene |-> scene, conf |-> conf]

DefaultImg == Img(<<1, 1, 1>>, Q(2))
OtherImg == Img(<<1, 1, 2>>, Q(1))

\* pairs <<ood_rgb, train_rgb>> of the stereo scenarios: equal or different
\* scenes, and confidences whose shifted weights are both positive, sum to
\* zero (twice 0.999, or 0 against 1.998), or leave one view alone
ScenePairs == {<<s, s>> : s \in Scenes} \cup {<<(<<1, 1, 1>>), s>> : s \in Scenes}
ConfPairs ==
    {<<Q(1), Q(1)>>, <<Q(2), Q(1)>>, <<ConfShift, ConfShift>>,
     <<Zero, Num(1998, 1000)>>, <<ConfShift, Q(1)>>}

\* supplied depth maps of an h x w view, shape (1, h, w): one depth everywhere,
\* one depth with a hole (0) at the first pixel, and depths 1, 2, 1, 2, ...
DepthMaps(h, w) ==
    LET map(f(_)) == [shape |-> <<1, h, w>>, data |-> [p \in 1..(h * w) |-> f(p)]]
    IN       {map(LAMBDA p : d) : d \in 0..MaxDepth}
        \cup {map(LAMBDA p : IF p = 1 THEN 0 ELSE d) : d \in 1..MaxDepth}
        \cup {map(LAMBDA p : 1 + ((p - 1) % 2))}

ConstDepth(h, w, d) == [shape |-> <<1, h, w>>, data |-> [p \in 1..(h * w) |-> d]]

\* pinhole intrinsics with focals fx, fy and principal point (c, c)
Intrinsics(fx, fy, c) == <<(<<fx, 0, c>>), (<<0, fy, c>>), (<<0, 0, 1>>)>>
Ks == {Intrinsics(fx, fy, c) : fx \in 1..MaxFocal, fy \in 1..MaxFocal, c \in 0..1}
DefaultK == Intrinsics(1, 1, 0)

\* poses: the identity, a rotation with a translation, an invertible
\* non-rigid matrix, and a singular matrix
PoseRot == <<(<<0, -1, 0, 1>>), (<<1, 0, 0, 2>>), (<<0, 0, 1, 3>>), (<<0, 0, 0, 1>>)>>
PoseScale == <<(<<2, 0, 0, 1>>), (<<0, 1, 0, 0>>), (<<1, 0, 1, 0>>), (<<0, 0, 0, 1>>)>>
PoseSingular == <<(<<1, 0, 0, 0>>), (<<0, 0, 0, 0>>), (<<0, 0, 1, 0>>), (<<0, 0, 0, 1>>)>>
Poses == {Eye4, PoseRot, PoseScale, PoseSingular}

Opt(S) == {None} \cup {Some(v) : v \in S}

NoFlags == [return_overlap_mask |-> FALSE, return_score_map |-> FALSE,
            return_projections |-> FALSE, return_ptmps |-> FALSE]
Flags == [return_overlap_mask : BOOLEAN, return_score_map : BOOLEAN,
          return_projections : BOOLEAN, return_ptmps : BOOLEAN]

NoGeometry == [train_depth |-> None, ood_depth |-> None, K |-> None,
               train_pose |-> None, ood_pose |-> None]
Geometry(td, od, K, tp, op) ==
    [train_depth |-> Some(td), ood_depth |-> Some(od), K |-> Some(K),
     train_pose |-> Some(tp), ood_pose |-> Some(op)]
DefaultGeometry(h, w) ==
    Geometry(ConstDepth(h, w, 1), ConstDepth(h, w, 1), DefaultK, Eye4, Eye4)

Arguments(ood_rgb, train_rgb, shape, flags, geo) ==
    [ood_rgb |-> ood_rgb, train_rgb |-> train_rgb, h |-> shape[1], w |-> shape[2],
     flags |-> flags, geo |-> geo]

\* every subset of the five optional geometry inputs, on a MaxSide x MaxSide pair
BundleCalls ==
    {Arguments(DefaultImg, DefaultImg, <<MaxSide, MaxSide>>, NoFlags, g) :
        g \in [train_depth : Opt({ConstDepth(MaxSide, MaxSide, 1)}),
               ood_depth : Opt({ConstDepth(MaxSide, MaxSide, 1)}),
               K : Opt({DefaultK}), train_pose : Opt({Eye4}), ood_pose : Opt({Eye4})]}

\* every combination of the four return flags, on both paths
FlagCalls ==
    {Arguments(DefaultImg, OtherImg, <<MaxSide, MaxSide>>, f, g) :
        f \in Flags, g \in {NoGeometry, DefaultGeometry(MaxSide, MaxSide)}}

\* every input resolution, on both paths
ShapeFlags == [NoFlags EXCEPT !.return_overlap_mask = TRUE, !.return_score_map = TRUE]
ShapeCalls ==
    UNION {{Arguments(DefaultImg, OtherImg, sh, ShapeFlags, g) :
                g \in {NoGeometry, DefaultGeometry(sh[1], sh[2])}} : sh \in Shapes}

\* the stereo scenarios: the scenes vary under one pair of confidences, and
\* the confidences vary on an equal and on a different pair of scenes
StereoShapes == {x \in Shapes : x[1] = 1 \/ x = <<MaxSide, MaxSide>>}
StereoCalls ==
    {Arguments(Img(sp[1], Q(2)), Img(sp[2], Q(1)), sh, NoFlags, NoGeometry) :
        sp \in ScenePairs, sh \in StereoShapes}
    \cup
    {Arguments(Img(sp[1], cp[1]), Img(sp[2], cp[2]), sh, NoFlags, NoGeometry) :
        sp \in {<<(<<1, 1, 1>>), (<<1, 1, 1>>)>>, <<(<<1, 1, 1>>), (<<1, 1, 2>>)>>},
        cp \in ConfPairs, sh \in StereoShapes}

\* the depth scenarios, on a MaxSide x MaxSide pair: depth maps, intrinsics
\* and poses vary in turn; the two images are equal or different
DepthPairs ==
    {<<d, d>> : d \in DepthMaps(MaxSide, MaxSide)}
    \cup {<<ConstDepth(MaxSide, MaxSide, 1), d>> : d \in DepthMaps(MaxSide, MaxSide)}
DepthCalls ==
    {Arguments(DefaultImg, i, <<MaxSide, MaxSide>>, NoFlags,
               Geometry(dp[1], dp[2], DefaultK, pp[1], pp[2])) :
        i \in {DefaultImg, OtherImg}, dp \in DepthPairs,
        pp \in {<<Eye4, Eye4>>, <<PoseRot, PoseRot>>, <<PoseRot, PoseScale>>}}
    \cup
    {Arguments(DefaultImg, DefaultImg, <<MaxSide, MaxSide>>, NoFlags,
               Geometry(d, d, K, pp[1], pp[2])) :
        d \in {ConstDepth(MaxSide, MaxSide, MaxDepth)}, K \in Ks,
        pp \in {<<Eye4, Eye4>>, <<PoseRot, PoseScale>>}}
    \cup
    {Arguments(DefaultImg, DefaultImg, <<MaxSide, MaxSide>>, NoFlags,
               Geometry(d, d, DefaultK, tp, op)) :
        d \in {ConstDepth(MaxSide, MaxSide, MaxDepth)}, tp \in Poses, op \in Poses}

Calls == BundleCalls \cup FlagCalls \cup ShapeCalls \cup StereoCalls \cup DepthCalls

---------------------------------------------------------------------------
(* The rasterizer's pictures *)

Background == [c \in Chan |-> Sentinel]
ZeroVec == [c \in Chan |-> 0]
Unit(i) == [c \in Chan |-> IF c = i THEN 1 ELSE 0]
\* a covered pixel whose first channel happens to equal the background value
PartSentinel == [c \in Chan |-> IF c = 1 THEN Sentinel ELSE IF c = 2 THEN 1 ELSE 0]

PixelVecs == {Background, ZeroVec, PartSentinel} \cup {Unit(i) : i \in Chan}

\* The pairs <<view 0, view 1>> of rendered feature images of n raster pixels:
\* any two vectors at the first pixel, background or one common feature at the
\* second, background elsewhere.  (At most two pixels are covered in both
\* views, which keeps the score's numerator and denominator within 32 bits.)
Pictures(n) ==
    {[k \in 1..2 |-> [p \in 1..n |->
            IF p = 1 THEN a[k] ELSE IF p = 2 THEN b[k] ELSE Background]] :
        a \in PixelVecs \X PixelVecs,
        b \in {<<Background, Background>>, <<Unit(1), Unit(1)>>}}

---------------------------------------------------------------------------
(* State *)

VARIABLES
    img_size,    \* self.img_size: None or Some(s)
    only_ptmps,  \* the module global forward reads at line 349: None when unbound
    rasterizer,  \* self.rasterizer: None before it is first set, else Some(image_size)
    pc,          \* where the call of forward stands
    args,        \* the arguments of the call
    err,         \* the exception that ended the call, "" if none
    path,        \* which canonical point map estimator ran: "", "stereo" or "depth"
    geo,         \* the depth path's locals: did_geometry, rel_pose
    conf,        \* the stereo path's confidences
    canon,       \* the canonical point map, flattened
    ptmps,       \* the two per-view point maps, flattened
    focal,       \* the focal block's result: raw estimate and the per-view rows
    rendering,   \* the rendered feature images as render returned them
    zeroed,      \* rendering after line 442 zeroed its background entries
    mask,        \* overlap_mask, with its spatial shape
    dissim,      \* feat_dissim_maps
    score,       \* feat_dissim_weighted
    ret,         \* the returned value
    calls,       \* calls of forward on several threads: each thread's locals
    serial       \* whether the client runs those calls one at a time

vars == <<img_size, only_ptmps, rasterizer, pc, args, err, path, geo, conf, canon,
          ptmps, focal, rendering, zeroed, mask, dissim, score, ret, calls, serial>>

\* the threads' part of the state: untouched by a call that runs alone
threads == <<calls, serial>>
config == <<img_size, only_ptmps>>
tail == <<focal, rendering, zeroed, mask, dissim, score, ret>>

\* PointsRasterizationSettings(image_size=s): an int is a square image
SquareSize(s) == <<s, s>>

\* MEt3R.__init__ (lines 97-103) and the module's globals as loaded: the module
\* binds no name only_ptmps; a client of the module may bind it
Init ==
    /\ img_size \in Opt(1..MaxSide)
    /\ only_ptmps \in Opt(BOOLEAN)
    /\ rasterizer = IF img_size = None THEN None ELSE Some(SquareSize(img_size[1]))
    /\ pc = "idle"
    /\ args = None
    /\ err = ""
    /\ path = ""
    /\ geo = None /\ conf = None /\ canon = None /\ ptmps = None
    /\ focal = None /\ rendering = None /\ zeroed = None /\ mask = None
    /\ dissim = None /\ score = None /\ ret = None
    /\ calls = None /\ serial = TRUE

\* forward is called (lines 324-327)
Call ==
    /\ pc = "idle"
    /\ \E a \in Calls : args' = a
    /\ pc' = "check"
    /\ UNCHANGED <<config, threads, rasterizer, err, path, geo, conf, canon, ptmps, tail>>

\* lines 329-331: the assertion on K, train_pose and train_depth
BundleOk(g) ==
    (g.K # None \/ g.train_pose # None \/ g.train_depth # None)
        => (g.K # None /\ g.train_pose # None /\ g.train_depth # None)

CheckBundle ==
    /\ pc = "check"
    /\ IF BundleOk(args.geo)
         THEN pc' = "raster" /\ err' = err
         ELSE pc' = "raised" /\ err' = "AssertionError"
    /\ UNCHANGED <<config, threads, rasterizer, args, path, geo, conf, canon, ptmps, tail>>

\* mutant: image_size=(w, h)
SetRasterizer_Swapped ==
    /\ pc = "raster"
    /\ rasterizer' = IF img_size = None THEN Some(<<args.w, args.h>>) ELSE rasterizer
    /\ pc' = "geometry"
    /\ UNCHANGED <<config, threads, args, err, path, geo, conf, canon, ptmps, tail>>

\* lines 334-341: in on-the-fly mode the rasterizer is replaced
SetRasterizer ==
    /\ pc = "raster"
    /\ rasterizer' = IF img_size = None THEN Some(<<args.h, args.w>>) ELSE rasterizer
    /\ pc' = "geometry"
    /\ UNCHANGED <<config, threads, args, err, path, geo, conf, canon, ptmps, tail>>

\* lines 343-344: the stereo-inference path
StereoPath ==
    /\ pc = "geometry"
    /\ args.geo.train_depth = None
    /\ LET pred == Dust3r(args.ood_rgb, args.train_rgb, args.h, args.w)
           out == compute_canonical_point_map(pred)
       IN  /\ conf' = pred.conf
           /\ canon' = out.canon
           /\ ptmps' = out.ptmps
    /\ path' = "stereo"
    /\ pc' = "only_ptmps"
    /\ UNCHANGED <<config, threads, rasterizer, args, err, geo, tail>>

\* lines 345-347: the depth path
DepthPath ==
    /\ pc = "geometry"
    /\ args.geo.train_depth # None
    /\ LET g == args.geo
           out == canonical_point_map_from_depth(
                      g.train_depth, g.ood_depth, g.K, g.train_pose, g.ood_pose)
       IN  IF out.err = ""
             THEN /\ geo' = [did_geometry |-> TRUE, rel_pose |-> out.rel_pose]
                  /\ canon' = out.canon
                  /\ ptmps' = out.ptmps
                  /\ pc' = "only_ptmps"
                  /\ err' = err
             ELSE /\ geo' = [did_geometry |-> out.did_geometry, rel_pose |-> None]
                  /\ pc' = "raised"
                  /\ err' = out.err
                  /\ UNCHANGED <<canon, ptmps>>
    /\ path' = "depth"
    /\ UNCHANGED <<config, threads, rasterizer, args, conf, tail>>

\* lines 349-350: only_ptmps is no parameter and no local of forward, so it is
\* looked up in the module's globals
OnlyPtmps ==
    /\ pc = "only_ptmps"
    /\ IF only_ptmps = None
         THEN pc' = "raised" /\ err' = "NameError" /\ ret' = ret
       ELSE IF only_ptmps[1]
         THEN /\ pc' = "returned" /\ err' = err
              /\ ret' = [tuple |-> FALSE, items |-> <<[name |-> "ptmps", value |-> ptmps]>>]
       ELSE pc' = "focal" /\ err' = err /\ ret' = ret
    /\ UNCHANGED <<config, threads, rasterizer, args, path, geo, conf, canon, ptmps,
                   focal, rendering, zeroed, mask, dissim, score>>

\* lines 352-385
Focal ==
    /\ pc = "focal"
    /\ focal' = FocalBlock(args.geo.K, canon, args.h, args.w)
    /\ pc' = "render"
    /\ UNCHANGED <<config, threads, rasterizer, args, err, path, geo, conf, canon, ptmps,
                   rendering, zeroed, mask, dissim, score, ret>>

\* lines 387-435: features, point clouds, camera, render.  The picture has the
\* rasterizer's image_size; views with equal points and equal images (hence
\* equal features) get equal pictures.
Render ==
    /\ pc = "render"
    /\ \E pic \in Pictures(rasterizer[1][1] * rasterizer[1][2]) :
          /\ (ptmps[1] = ptmps[2] /\ args.ood_rgb = args.train_rgb) => pic[1] = pic[2]
          /\ rendering' = pic
    /\ pc' = "score"
    /\ UNCHANGED <<config, threads, rasterizer, args, err, path, geo, conf, canon, ptmps,
                   focal, zeroed, mask, dissim, score, ret>>

\* lines 437-456
Score ==
    /\ pc = "score"
    /\ LET m == OverlapMask(rendering)
           z == ZeroOut(rendering)
           d == DissimMap(z)
       IN  /\ mask' = [shape |-> rasterizer[1], data |-> m]
           /\ zeroed' = z
           /\ dissim' = [shape |-> rasterizer[1], data |-> d]
           /\ score' = WeightedScore(d, m)
    /\ pc' = "return"
    /\ UNCHANGED <<config, threads, rasterizer, args, err, path, geo, conf, canon, ptmps,
                   focal, rendering, ret>>

\* lines 458-471: the outputs, in the order they are appended
Item(n, v) == [name |-> n, value |-> v]
Outputs(f, sc, m, d, r, pt) ==
    <<Item("score", sc)>>
    \o (IF f.return_overlap_mask THEN <<Item("overlap_mask", m)>> ELSE <<>>)
    \o (IF f.return_score_map THEN <<Item("score_map", d)>> ELSE <<>>)
    \o (IF f.return_projections THEN <<Item("projections", r)>> ELSE <<>>)
    \o (IF f.return_ptmps THEN <<Item("ptmps", pt)>> ELSE <<>>)

Return ==
    /\ pc = "return"
    /\ ret' = [tuple |-> TRUE,
               items |-> Outputs(args.flags, score, mask, dissim, zeroed, ptmps)]
    /\ pc' = "returned"
    /\ UNCHANGED <<config, threads, rasterizer, args, err, path, geo, conf, canon, ptmps,
                   focal, rendering, zeroed, mask, dissim, score>>

Next ==
    \/ Call
    \/ CheckBundle
    \/ SetRasterizer
    \/ StereoPath
    \/ DepthPath
    \/ OnlyPtmps
    \/ Focal
    \/ Render
    \/ Score
    \/ Return

Spec == Init /\ [][Next]_vars

---------------------------------------------------------------------------
(* Calls of forward on two threads of one instance.  self.rasterizer is the
   one field forward writes (lines 334-341) and render reads (line 271); the
   assertion, the point maps and the focal block (lines 329-331, 343-385)
   touch the call's locals only, so they are one step of a thread here.  The
   calls are those that pass the assertion of lines 329-331. *)

Threads == {"a", "b"}

\* the locals of a call: where it stands, its input resolution, the
\* image_size of the rasterizer its render used, the exception that ended it
NoCall == [pc |-> "idle", h |-> None, w |-> None, image_size |-> None, err |-> ""]

\* before the call: every local of the single call of Spec
single == <<pc, args, err, path, geo, conf, canon, ptmps, tail>>

ThreadInit ==
    /\ img_size \in Opt(1..MaxSide)
    /\ only_ptmps \in Opt(BOOLEAN)
    /\ rasterizer = IF img_size = None THEN None ELSE Some(SquareSize(img_size[1]))
    /\ serial \in BOOLEAN
    /\ calls = [t \in Threads |-> NoCall]
    /\ pc = "idle"
    /\ args = None
    /\ err = ""
    /\ path = ""
    /\ geo = None /\ conf = None /\ canon = None /\ ptmps = None
    /\ focal = None /\ rendering = None /\ zeroed = None /\ mask = None
    /\ dissim = None /\ score = None /\ ret = None

\* forward is called on thread t (lines 324-327); a client that runs its
\* calls one at a time starts a call only when no other call is under way
ThreadCall(t) ==
    /\ calls[t].pc = "idle"
    /\ serial => \A u \in Threads \ {t} : calls[u].pc = "idle"
    /\ \E sh \in Shapes :
          calls' = [calls EXCEPT ![t] =
                       [pc |-> "raster", h |-> sh[1], w |-> sh[2],
                        image_size |-> None, err |-> ""]]
    /\ UNCHANGED <<config, serial, rasterizer, single>>

\* mutant: the rasterizer is built once, by the first call
ThreadSetRasterizer_Once(t) ==
    /\ calls[t].pc = "raster"
    /\ rasterizer' = IF img_size = None /\ rasterizer = None
                       THEN Some(<<calls[t].h, calls[t].w>>) ELSE rasterizer
    /\ calls' = [calls EXCEPT ![t].pc = "geometry"]
    /\ UNCHANGED <<config, serial, single>>

\* lines 334-341 on thread t: in on-the-fly mode the field is replaced
ThreadSetRasterizer(t) ==
    /\ calls[t].pc = "raster"
    /\ rasterizer' = IF img_size = None
                       THEN Some(<<calls[t].h, calls[t].w>>) ELSE rasterizer
    /\ calls' = [calls EXCEPT ![t].pc = "geometry"]
    /\ UNCHANGED <<config, serial, single>>

\* lines 343-385 on thread t: the canonical point map, the lookup of
\* only_ptmps (line 349) and the focal block
ThreadGeometry(t) ==
    /\ calls[t].pc = "geometry"
    /\ calls' = [calls EXCEPT ![t] =
                   IF only_ptmps = None
                     THEN [@ EXCEPT !.pc = "idle", !.err = "NameError"]
                   ELSE IF only_ptmps[1]
                     THEN [@ EXCEPT !.pc = "idle"]
                   ELSE [@ EXCEPT !.pc = "render"]]
    /\ UNCHANGED <<config, serial, rasterizer, single>>

\* lines 387-435 on thread t: render reads self.rasterizer (line 271) as it is
\* then; the rendering has that rasterizer's image_size
ThreadRender(t) ==
    /\ calls[t].pc = "render"
    /\ calls' = [calls EXCEPT ![t] = [@ EXCEPT !.pc = "score", !.image_size = rasterizer]]
    /\ UNCHANGED <<config, serial, rasterizer, single>>

\* lines 437-471 on thread t: the score is computed from the rendering and the
\* call returns
ThreadReturn(t) ==
    /\ calls[t].pc = "score"
    /\ calls' = [calls EXCEPT ![t].pc = "idle"]
    /\ UNCHANGED <<config, serial, rasterizer, single>>

ThreadNext ==
    \E t \in Threads :
        \/ ThreadCall(t)
        \/ ThreadSetRasterizer(t)
        \/ ThreadGeometry(t)
        \/ ThreadRender(t)
        \/ ThreadReturn(t)

SpecThreads == ThreadInit /\ [][ThreadNext]_vars

---------------------------------------------------------------------------
(* Positions of a call *)

\* the canonical point map has just been computed (line 349 is next)
GeometryDone == pc = "only_ptmps"

\* the focal block has just run (line 387 is next)
FocalDone == pc = "render"

\* the mask and the score have just been computed (line 458 is next)
Scored == pc = "return"

Finished == pc \in {"returned", "raised"}

GeoInputs(g) == <<g.train_depth, g.ood_depth, g.K, g.train_pose, g.ood_pose>>
Supplied(g) == {i \in 1..5 : GeoInputs(g)[i] # None}

---------------------------------------------------------------------------
(* C1 *)

\* at least one of the five geometry inputs is supplied and at least one is missing
PartialBundle(g) == Supplied(g) # {} /\ Supplied(g) # 1..5

\* C1: a call that supplies some but not all of train_depth, ood_depth, K,
\* train_pose, ood_pose ends in an AssertionError raised before any geometry is
\* computed, and no estimator (in particular not the stereo path) ever runs.
C1_PartialBundleRaises ==
    ((Finished \/ path # "") /\ PartialBundle(args.geo))
        => (pc = "raised" /\ err = "AssertionError" /\ path = "")

---------------------------------------------------------------------------
(* C2 *)

\* the inputs satisfy the preconditions: the geometry inputs come all together
\* or not at all, supplied poses are invertible, supplied depth maps keep two
\* dimensions under squeeze
ValidCall(a) ==
    /\ Supplied(a.geo) \in {{}, 1..5}
    /\ Supplied(a.geo) = 1..5 =>
          /\ ~Singular(a.geo.train_pose[1])
          /\ ~Singular(a.geo.ood_pose[1])
          /\ a.h > 1 /\ a.w > 1

Names(items) == [i \in 1..Len(items) |-> items[i].name]

ExpectedNames(f) ==
    <<"score">>
    \o (IF f.return_overlap_mask THEN <<"overlap_mask">> ELSE <<>>)
    \o (IF f.return_score_map THEN <<"score_map">> ELSE <<>>)
    \o (IF f.return_projections THEN <<"projections">> ELSE <<>>)
    \o (IF f.return_ptmps THEN <<"ptmps">> ELSE <<>>)

FlagCount(f) ==
    IntSum(<<IF f.return_overlap_mask THEN 1 ELSE 0, IF f.return_score_map THEN 1 ELSE 0,
             IF f.return_projections THEN 1 ELSE 0, IF f.return_ptmps THEN 1 ELSE 0>>)

\* C2: every call whose inputs satisfy the preconditions returns a tuple that
\* starts with the score and continues with exactly the requested outputs in
\* the order overlap mask, dissimilarity map, projections, point maps; its
\* length is 1 + the number of flags set.
C2_ReturnsRequestedTuple ==
    (Finished /\ ValidCall(args))
        => /\ pc = "returned"
           /\ ret.tuple
           /\ Names(ret.items) = ExpectedNames(args.flags)
           /\ Len(ret.items) = 1 + FlagCount(args.flags)

---------------------------------------------------------------------------
(* C3 *)

\* C3: the overlap mask is 1 at a pixel exactly when no channel of either
\* rendered feature image equals the background sentinel there, and 0 otherwise.
C3_MaskIffNoSentinel ==
    Scored =>
        \A p \in 1..Len(mask.data) :
            /\ mask.data[p] \in {0, 1}
            /\ mask.data[p] = 1 <=>
                  \A k \in 1..2 : \A c \in Chan : rendering[k][p][c] # Sentinel

\* a mask with a 1, and a 0 at a pixel that is covered in both views but has
\* the sentinel in a single channel of a single view
C3_Witness ==
    /\ Scored
    /\ \E p \in 1..Len(mask.data) : mask.data[p] = 1
    /\ \E p \in 1..Len(mask.data) :
          /\ mask.data[p] = 0
          /\ rendering[1][p] = PartSentinel
          /\ rendering[2][p] = Unit(1)

---------------------------------------------------------------------------
(* C4 *)

AllFalse(m) == \A p \in 1..Len(m) : m[p] = 0

\* C4: the score never divides by zero: at every pixel the cosine denominator
\* is positive and the dissimilarity finite, the mask normalizer is positive
\* and the score finite; with an all-false mask the score is 0.
C4_NoDivisionByZero ==
    Scored =>
        /\ \A p \in 1..Len(mask.data) :
              /\ Less(Zero, CosDenominator(zeroed[2][p], zeroed[1][p]))
              /\ IsFinite(dissim.data[p])
        /\ Less(Zero, MaskNormalizer(mask.data))
        /\ IsFinite(score)
        /\ AllFalse(mask.data) => score = Zero

\* an all-false mask over a picture with a pixel of norm 0 in both views
C4_Witness ==
    /\ Scored
    /\ AllFalse(mask.data)
    /\ Len(mask.data) > 1
    /\ zeroed[1][1] = ZeroVec /\ zeroed[2][1] = ZeroVec
    /\ score = Zero

---------------------------------------------------------------------------
(* C5 *)

RasterShape(h, w) == IF img_size = None THEN <<h, w>> ELSE <<img_size[1], img_size[1]>>

---------------------------------------------------------------------------
(* C6 *)

\* the same image, the same depth map and the same pose for both views, with K
Identical(a) ==
    /\ Supplied(a.geo) = 1..5
    /\ a.ood_rgb = a.train_rgb
    /\ a.geo.ood_depth = a.geo.train_depth
    /\ a.geo.ood_pose = a.geo.train_pose

\* |a| <= 1/100, the tolerance "approximately 0" is read with
Small(a) == IsFinite(a) /\ Abs(a[1]) <= a[2] \div 100

SameGeometry ==
    (GeometryDone /\ path = "depth" /\ Identical(args))
        => /\ geo.rel_pose = EyeQ
           /\ ptmps[1] = ptmps[2]

NormSq(p) == Dot(zeroed[1][p], zeroed[1][p])

---------------------------------------------------------------------------
(* C7 *)

\* C7: for invertible poses A and B the relative pose A -> B composed with
\* the relative pose B -> A is the identity, in either order.
C7_RelativePosesInverse ==
    (GeometryDone /\ path = "depth" /\ ~Singular(args.geo.ood_pose[1]))
        => LET back == get_relative_pose(args.geo.ood_pose[1], args.geo.train_pose[1])
           IN  /\ back.err = ""
               /\ MatMul(geo.rel_pose, back.val) = EyeQ
               /\ MatMul(back.val, geo.rel_pose) = EyeQ

\* a rigid and a non-rigid invertible pose whose relative pose is not the identity
C7_Witness ==
    /\ GeometryDone /\ path = "depth"
    /\ args.geo.train_pose = Some(PoseRot)
    /\ args.geo.ood_pose = Some(PoseScale)
    /\ geo.rel_pose # EyeQ

---------------------------------------------------------------------------
(* C8 *)

\* forward pinhole projection (fx x / z + cx, fy y / z + cy) with intrinsics K
Project(K, pt) ==
    <<Add(Div(Mul(Q(K[1][1]), pt[1]), pt[3]), Q(K[1][3])),
      Add(Div(Mul(Q(K[2][2]), pt[2]), pt[3]), Q(K[2][3]))>>

RoundTrip(K, depth, pm, w, p) ==
    /\ pm[p][3] = Q(depth[p])
    /\ Project(K, pm[p]) = <<Q(Col(p, w)), Q(Row(p, w))>>

\* C8 as stated: at every pixel (u, v) with depth d the point has z = d and
\* projects back to (u, v); the map has one point per pixel of the depth map.
C8_RoundTripEveryPixel ==
    (GeometryDone /\ path = "depth")
        => /\ Len(ptmps[1]) = args.h * args.w
           /\ \A p \in 1..(args.h * args.w) :
                 RoundTrip(args.geo.K[1], args.geo.ood_depth[1].data, ptmps[1], args.w, p)

\* C8, amended: at every pixel the point has z = d, and at every pixel with
\* d # 0 it projects back to (u, v); the map has one point per pixel.
C8_RoundTripNonzeroDepth ==
    (GeometryDone /\ path = "depth")
        => LET d == args.geo.ood_depth[1].data
           IN  /\ Len(ptmps[1]) = args.h * args.w
               /\ \A p \in 1..(args.h * args.w) :
                     /\ ptmps[1][p][3] = Q(d[p])
                     /\ d[p] # 0 => RoundTrip(args.geo.K[1], d, ptmps[1], args.w, p)

\* a depth map with different depths, intrinsics with different focals and a
\* principal point away from the corner
C8_Witness ==
    /\ GeometryDone /\ path = "depth"
    /\ args.geo.K = Some(Intrinsics(1, MaxFocal, 1))
    /\ args.geo.ood_depth[1].data[1] = MaxDepth
    /\ ptmps[1][1] = <<Q(-MaxDepth), Num(-MaxDepth, MaxFocal), Q(MaxDepth)>>

---------------------------------------------------------------------------
(* C9 *)

\* canon is the back-projection of the centered grid with focals fx, fy and
\* positive depths
IsPinhole(c, fx, fy, h, w) ==
    \A p \in 1..(h * w) :
        /\ IsFinite(c[p][3]) /\ Less(Zero, c[p][3])
        /\ c[p][1] = Div(Mul(PixelU(p, w, w), c[p][3]), Q(fx))
        /\ c[p][2] = Div(Mul(PixelV(p, w, h), c[p][3]), Q(fy))

HasNaNVote(c, h, w) ==
    \E p \in 1..(h * w) : IsNaN(FxVotes(c, h, w)[p]) \/ IsNaN(FyVotes(c, h, w)[p])

---------------------------------------------------------------------------
(* C10 *)

FinitePoint(pt) == \A c \in 1..3 : IsFinite(pt[c])

\* C10 as stated: the normalizer of the fusion is never zero and the fused
\* point is finite.
C10_FusionGuarded ==
    (GeometryDone /\ path = "stereo")
        => \A p \in 1..Len(canon) :
              /\ WeightSum(conf, p) # Zero
              /\ FinitePoint(canon[p])

\* C10, amended: the canonical point is the (confidence - 0.999)-weighted
\* average of the two predictions, divided by the plain weight sum with no
\* epsilon: where the sum is not zero the point is finite and is that average;
\* where it is zero no coordinate is finite (NaN or an infinity), and no
\* exception is raised by the fusion.
C10_FusionUnguarded ==
    (path = "stereo")
        => /\ err \in {"", "NameError"}
           /\ \A p \in 1..Len(canon) :
                 LET w1 == Sub(conf[1][p], ConfShift)
                     w2 == Sub(conf[2][p], ConfShift)
                 IN  IF Add(w1, w2) # Zero
                       THEN /\ FinitePoint(canon[p])
                            /\ \A c \in 1..3 :
                                  Mul(canon[p][c], Add(w1, w2))
                                      = Add(Mul(w1, ptmps[1][p][c]), Mul(w2, ptmps[2][p][c]))
                       ELSE \A c \in 1..3 : ~IsFinite(canon[p][c])

\* weights of opposite sign that cancel, on two different predictions
C10_Witness ==
    /\ GeometryDone /\ path = "stereo"
    /\ conf[1][1] = Zero /\ conf[2][1] = Num(1998, 1000)
    /\ ptmps[1] # ptmps[2]
    /\ ~FinitePoint(canon[1])

---------------------------------------------------------------------------
(* C11: the on-the-fly rasterizer is one field shared by the calls *)

\* the input resolution of the call on thread t
Resolution(t) == <<calls[t].h, calls[t].w>>

\* thread t has rendered
Rendered(t) == calls[t].image_size # None

=============================================================================
